---- MODULE Spec2Model ----
(***************************************************************************)
(* A model of the deepinv physics operators (compressed sensing,           *)
(* tomography), the fast transforms they use (hadamard, dct1) and the EPLL *)
(* patch-prior reconstruction.                                             *)
(*                                                                         *)
(* Numbers.  The transforms divide by square roots (2^(m/2), sqrt(2(n-1))),*)
(* so a tensor is kept as integer entries over the square root of a        *)
(* positive integer: [rows |-> <<row, ...>>, den |-> d] stands for the     *)
(* real tensor rows / sqrt(d).  Every operation below is exact on this     *)
(* representation; two tensors are compared by value (TensorEq).           *)
(***************************************************************************)
EXTENDS Integers, Sequences, FiniteSets, TLC

VARIABLES
    had,        \* hadamard session: the log of hadamard calls
    physics,    \* the CompressedSensing operator's attributes
    calls,      \* the log of calls made on the CompressedSensing operator
    ctor,       \* a call of EPLL.__init__: its arguments and what it did
    GMM,        \* the GaussianMixtureModel instances, by instance id
    rec,        \* the frames of the EPLL.reconstruction calls, by task
    serialized, \* whether the caller runs the reconstructions one after the other
    tomo,       \* the Tomography operator's attributes
    tcalls,     \* the log of calls made on the Tomography operator
    power,      \* the frame of a CompressedSensing.power_method call
    ds          \* the PatchDataset and the log of its __getitem__ calls

csVars == <<had, physics, calls>>
epllVars == <<ctor, GMM, rec, serialized>>
tomoVars == <<tomo, tcalls>>
pmVars == <<power>>
dataVars == <<ds>>
vars == <<had, physics, calls, ctor, GMM, rec, serialized, tomo, tcalls, power, ds>>

(***************************************************************************)
(* Bounds of the model.                                                    *)
(***************************************************************************)
\* entries of the tensors given as inputs range over 0..MaxVal (images and
\* probes) or -MaxVal..MaxVal (hadamard inputs)
MaxVal == 1
\* the longest chain of calls, each fed the previous call's result
MaxCalls == 2

\* Python's None, and a value that is not None (v is then read as o.val)
None == [none |-> TRUE]
Some(v) == [val |-> v]

\* no exception was raised
NoError == "no error"

\* an exception raised by a call, as the call's result
Raised(e) == [raised |-> e]
IsRaised(r) == "raised" \in DOMAIN r

(***************************************************************************)
(* Exact arithmetic on tensors  rows / sqrt(den).                          *)
(***************************************************************************)
\* the identity on sequences (it makes TLC build the sequence once instead of
\* recomputing an entry each time it is read)
Built(s) == s \o <<>>

RECURSIVE SumSeq(_)
SumSeq(s) == IF s = <<>> THEN 0 ELSE Head(s) + SumSeq(Tail(s))

RECURSIVE Flatten(_)
Flatten(rows) == IF rows = <<>> THEN <<>> ELSE Head(rows) \o Flatten(Tail(rows))

\* reshape(-1, w) of a flat sequence: consecutive chunks of width w
Chunk(flat, w) ==
    Built([i \in 1..(Len(flat) \div w) |-> SubSeq(flat, (i - 1) * w + 1, i * w)])

Sign(a) == IF a > 0 THEN 1 ELSE IF a < 0 THEN -1 ELSE 0

\* a / sqrt(da) = b / sqrt(db), for integers a, b and positive da, db
RealEq(a, da, b, db) == Sign(a) = Sign(b) /\ a * a * db = b * b * da

TensorEq(s, t) ==
    /\ Len(s.rows) = Len(t.rows)
    /\ \A i \in 1..Len(s.rows) :
        /\ Len(s.rows[i]) = Len(t.rows[i])
        /\ \A j \in 1..Len(s.rows[i]) :
              RealEq(s.rows[i][j], s.den, t.rows[i][j], t.den)

\* a.flatten() @ b.flatten()
Dot(s, t) ==
    LET a == Flatten(s.rows)
        b == Flatten(t.rows)
    IN  [val |-> SumSeq([i \in 1..Len(a) |-> a[i] * b[i]]), den |-> s.den * t.den]

RECURSIVE Pow2(_)
Pow2(m) == IF m = 0 THEN 1 ELSE 2 * Pow2(m - 1)

\* int(np.log2(n)) for n >= 1
RECURSIVE Log2Floor(_)
Log2Floor(n) == IF n < 2 THEN 0 ELSE 1 + Log2Floor(n \div 2)

(***************************************************************************)
(* hadamard(u, normalize)                                                  *)
(***************************************************************************)
\* one pass of the loop body on one batch row: x is a sequence (dim -2) of
\* sequences (dim -1); x[..., ::2, :] are the entries 1, 3, 5, ... here
ButterflyMut(x) ==
    Built([i \in 1..(Len(x) \div 2) |->
        [k \in 1..Len(x[2 * i - 1]) |-> x[2 * i - 1][k] + x[2 * i][k]]
        \o [k \in 1..Len(x[2 * i - 1]) |-> x[2 * i][k] - x[2 * i - 1][k]]])

Butterfly(x) ==
    Built([i \in 1..(Len(x) \div 2) |->
        [k \in 1..Len(x[2 * i - 1]) |-> x[2 * i - 1][k] + x[2 * i][k]]
        \o [k \in 1..Len(x[2 * i - 1]) |-> x[2 * i - 1][k] - x[2 * i][k]]])

RECURSIVE ButterflyLoop(_, _)
ButterflyLoop(x, d) == IF d = 0 THEN x ELSE ButterflyLoop(Butterfly(x), d - 1)

\* u is a tensor of shape (batch_size, n); the result is a tensor of the
\* same shape; the assert fails when n is not a power of two
hadamard(u, normalize) ==
    LET n == Len(u.rows[1])
        m == Log2Floor(n)
    IN  IF n # Pow2(m) THEN Raised("AssertionError")
        ELSE [rows |-> [b \in 1..Len(u.rows) |->
                          ButterflyLoop([j \in 1..n |-> <<u.rows[b][j]>>], m)[1]],
              den  |-> IF normalize THEN u.den * Pow2(m) ELSE u.den]

(***************************************************************************)
(* Inputs of the hadamard session.                                         *)
(***************************************************************************)
HadLengths == {2, 3, 4, 8, 16}

\* rows of length n with at most two nonzero entries
SparseRows(n) ==
    {[j \in 1..n |-> IF j = p THEN a ELSE IF j = q THEN b ELSE 0] :
        p \in 1..n, q \in 1..n, a \in -MaxVal..MaxVal, b \in -MaxVal..MaxVal}

HadInputs ==
    UNION {{[rows |-> <<r>>, den |-> 1] : r \in SparseRows(n)} : n \in HadLengths}
    \cup {[rows |-> <<r1, r2>>, den |-> 1] : r1 \in SparseRows(2), r2 \in SparseRows(2)}

NoPhysics == [fast |-> None]

\* the parts of the state a specification does not use
NoCtor == [pc |-> "new"]
NoEPLL == ctor = NoCtor /\ GMM = <<>> /\ rec = <<>> /\ serialized = FALSE
NoCS == had = <<>> /\ physics = NoPhysics /\ calls = <<>>
NoTomo == tomo = None /\ tcalls = <<>>
NoPower == power = None
NoData == ds = None

InitHadamard ==
    /\ NoPower
    /\ NoData
    /\ had = <<>>
    /\ physics = NoPhysics
    /\ calls = <<>>
    /\ NoEPLL
    /\ NoTomo

\* hadamard on a fresh input
HadamardCall ==
    /\ had = <<>>
    /\ \E u \in HadInputs, normalize \in BOOLEAN :
          had' = <<[arg |-> u, normalize |-> normalize, ret |-> hadamard(u, normalize)]>>
    /\ UNCHANGED <<physics, calls, epllVars, tomoVars, pmVars, dataVars>>

\* hadamard on the result of the previous hadamard call
HadamardAgain ==
    /\ had # <<>>
    /\ Len(had) < MaxCalls
    /\ ~IsRaised(had[Len(had)].ret)
    /\ \E normalize \in BOOLEAN :
          had' = Append(had, [arg |-> had[Len(had)].ret, normalize |-> normalize,
                              ret |-> hadamard(had[Len(had)].ret, normalize)])
    /\ UNCHANGED <<physics, calls, epllVars, tomoVars, pmVars, dataVars>>

NextHadamard == HadamardCall \/ HadamardAgain

SpecHadamard == InitHadamard /\ [][NextHadamard]_vars

(***************************************************************************)
(* dct1(x)                                                                 *)
(***************************************************************************)
\* 2 * cos(2 * pi * t / L) for the FFT lengths L = 2n - 2 of n = 2, 3, 4,
\* the lengths at which twice the cosine is an integer
TwoCos(L, t) ==
    CASE L = 2 -> <<2, -2>>[t + 1]
      [] L = 4 -> <<2, 0, -2, 0>>[t + 1]
      [] L = 6 -> <<2, 1, -1, -2, -1, 1>>[t + 1]

\* torch.cat([x, x.flip([1])[:, 1:-1]], dim=1) on one row
MirrorExtend(r) == Built(r \o [j \in 1..(Len(r) - 2) |-> r[Len(r) - j]])

\* the real part of torch.fft.rfft of one row e of length L: the entries
\* k = 0..L/2 of sum_j e[j] * cos(2 * pi * j * k / L).  On a mirrored row
\* the sum of e[j] * TwoCos is even, so the division is exact.
RfftReal(e) ==
    LET L == Len(e)
    IN  Built([k1 \in 1..(L \div 2 + 1) |->
            SumSeq([j1 \in 1..L |-> e[j1] * TwoCos(L, ((j1 - 1) * (k1 - 1)) % L)]) \div 2])

\* the square of the divisor np.sqrt(2 * (n - 1))
DctNormSqMut(n) == 2 * n

DctNormSq(n) == 2 * (n - 1)

dct1(x) ==
    LET n == Len(x.rows[1])
    IN  [rows |-> Built([i \in 1..Len(x.rows) |-> RfftReal(MirrorExtend(x.rows[i]))]),
         den  |-> x.den * DctNormSq(n)]

(***************************************************************************)
(* CompressedSensing                                                       *)
(***************************************************************************)
Prod(shape) == shape[1] * shape[2] * shape[3]

\* x * self.D, broadcast over the rows
TimesD(x, D) ==
    [rows |-> Built([i \in 1..Len(x.rows) |->
                 Built([j \in 1..Len(D) |-> x.rows[i][j] * D[j]])]),
     den  |-> x.den]

\* the entries of row r at the positions where mask is True, in order
RECURSIVE Select(_, _)
Select(r, mask) ==
    IF r = <<>> THEN <<>>
    ELSE (IF Head(mask) THEN <<Head(r)>> ELSE <<>>) \o Select(Tail(r), Tail(mask))

\* y2 = zeros(n); y2[mask] = r
RECURSIVE ZeroFill(_, _)
ZeroFill(r, mask) ==
    IF mask = <<>> THEN <<>>
    ELSE IF Head(mask) THEN <<Head(r)>> \o ZeroFill(Tail(r), Tail(mask))
    ELSE <<0>> \o ZeroFill(r, Tail(mask))

\* torch.einsum('in, mn->im', x, M) and torch.einsum('im, nm->in', y, M):
\* out[i][a] = sum_b x[i][b] * M[a][b]
Einsum(x, M) ==
    [rows |-> Built([i \in 1..Len(x.rows) |->
                 Built([a \in 1..Len(M) |->
                     SumSeq([b \in 1..Len(M[a]) |-> x.rows[i][b] * M[a][b]])])]),
     den  |-> x.den]

\* M.t()
Transpose(M) ==
    Built([b \in 1..Len(M[1]) |-> Built([a \in 1..Len(M) |-> M[a][b]])])

\* x.reshape(k, -1)
Reshape(x, k) ==
    LET flat == Flatten(x.rows)
    IN  [rows |-> Chunk(flat, Len(flat) \div k), den |-> x.den]

\* CompressedSensing.A
CS_A(self, x) ==
    LET N  == Len(x.rows)
        C  == self.img_shape[1]
        x1 == IF self.channelwise THEN Reshape(x, N * C) ELSE Reshape(x, N)
        y  == IF self.fast
              THEN LET t == dct1(TimesD(x1, self.D))
                   IN  [rows |-> Built([i \in 1..Len(t.rows) |-> Select(t.rows[i], self.mask)]),
                        den  |-> t.den]
              ELSE Einsum(x1, self.A_)
    IN  IF self.channelwise THEN Reshape(y, N) ELSE y

\* CompressedSensing.A_adjoint
CS_A_adjoint(self, y) ==
    LET N  == Len(y.rows)
        C  == self.img_shape[1]
        y1 == IF self.channelwise THEN Reshape(y, N * C) ELSE y
        x  == IF self.fast
              THEN LET y2 == [rows |-> Built([i \in 1..Len(y1.rows) |->
                                          ZeroFill(y1.rows[i], self.mask)]),
                              den  |-> y1.den]
                   IN  TimesD(dct1(y2), self.D)
              ELSE Einsum(y1, self.A_adjoint_)
    IN  Reshape(x, N)

\* CompressedSensing.A_dagger.  In dense mode the product with
\* self._A_dagger = np.linalg.pinv(A) is left uncomputed.
CS_A_dagger(self, y) ==
    IF self.fast THEN CS_A_adjoint(self, y)
    ELSE [einsum |-> <<y, self.A_dagger_>>]

\* CompressedSensing.adjointness_test, for the draw v of torch.randn_like(Au)
CS_adjointness_test(self, u, v) ==
    LET Au  == CS_A(self, u)
        Atv == CS_A_adjoint(self, v)
        s1  == Dot(v, Au)
        s2  == Dot(Atv, u)
    IN  [s1 |-> s1, s2 |-> s2]

(***************************************************************************)
(* CompressedSensing.__init__: the operators the constructor can build.    *)
(***************************************************************************)
\* (img_shape, channelwise) given to the constructor
CSShapes == {<<<<1, 1, 2>>, FALSE>>, <<<<1, 1, 3>>, FALSE>>,
             <<<<2, 1, 2>>, FALSE>>, <<<<2, 1, 2>>, TRUE>>}

\* n = prod(img_shape[1:]) if channelwise else prod(img_shape)
SignalLength(img_shape, channelwise) ==
    IF channelwise THEN img_shape[2] * img_shape[3] ELSE Prod(img_shape)

Count(mask) == Len(Select(mask, mask))

\* fast=True: D has random signs, mask marks m of the n positions
FastOperators ==
    {[img_shape |-> sc[1], channelwise |-> sc[2], fast |-> TRUE,
      n |-> SignalLength(sc[1], sc[2]), D |-> D, mask |-> mask] :
        sc \in CSShapes,
        D \in UNION {[1..n -> {1, -1}] : n \in 2..4},
        mask \in UNION {[1..n -> BOOLEAN] : n \in 2..4}}

\* the entries a draw of np.random.randn(m, n) / np.sqrt(m) is taken from
DenseEntries == {-1, 0, 1}

\* the m x n matrices of the dense mode, m * n <= 4
DenseMatrices(n) ==
    UNION {[1..m -> [1..n -> DenseEntries]] : m \in {k \in 1..2 : k * n <= 4}}

DenseOperators ==
    {[img_shape |-> sc[1], channelwise |-> sc[2], fast |-> FALSE,
      A_ |-> A, A_dagger_ |-> [pinv |-> A], A_adjoint_ |-> Transpose(A)] :
        sc \in CSShapes, A \in UNION {DenseMatrices(n) : n \in 2..4}}

\* the number of measurements m the operator was built with
Measurements(self) == IF self.fast THEN Count(self.mask) ELSE Len(self.A_)

CSOperators ==
    {o \in FastOperators :
        /\ Len(o.D) = o.n /\ Len(o.mask) = o.n /\ Count(o.mask) >= 1}
    \cup {o \in DenseOperators :
        Len(o.A_[1]) = SignalLength(o.img_shape, o.channelwise)}

\* images x of shape (1, C, H, W) and measurements y of the operator
Images(self) ==
    {[rows |-> <<r>>, den |-> 1] : r \in [1..Prod(self.img_shape) -> 0..MaxVal]}

MeasurementLength(self) ==
    IF self.channelwise THEN self.img_shape[1] * Measurements(self)
    ELSE Measurements(self)

MeasurementInputs(self) ==
    {[rows |-> <<r>>, den |-> 1] : r \in [1..MeasurementLength(self) -> 0..MaxVal]}

InitCS ==
    /\ NoPower
    /\ NoData
    /\ had = <<>>
    /\ physics \in CSOperators
    /\ calls = <<>>
    /\ NoEPLL
    /\ NoTomo

IsImage(t) == "rows" \in DOMAIN t /\ Len(t.rows[1]) = Prod(physics.img_shape)

LastRet == calls[Len(calls)].ret

\* the argument of a call: a fresh one on the first call of a session,
\* then the result of the previous call
Call(op, arg, ret) ==
    /\ calls' = Append(calls, [op |-> op, arg |-> arg, ret |-> ret])
    /\ UNCHANGED <<had, physics, epllVars, tomoVars, pmVars, dataVars>>

CallA ==
    \/ /\ calls = <<>>
       /\ \E x \in Images(physics) : Call("A", x, CS_A(physics, x))
    \/ /\ calls # <<>> /\ Len(calls) < MaxCalls
       /\ calls[Len(calls)].op \in {"A_adjoint", "A_dagger"}
       /\ IsImage(LastRet)
       /\ Call("A", LastRet, CS_A(physics, LastRet))

CallAAdjoint ==
    \/ /\ calls = <<>>
       /\ \E y \in MeasurementInputs(physics) :
             Call("A_adjoint", y, CS_A_adjoint(physics, y))
    \/ /\ calls # <<>> /\ Len(calls) < MaxCalls
       /\ calls[Len(calls)].op = "A"
       /\ Call("A_adjoint", LastRet, CS_A_adjoint(physics, LastRet))

CallADagger ==
    \/ /\ calls = <<>>
       /\ \E y \in MeasurementInputs(physics) :
             Call("A_dagger", y, CS_A_dagger(physics, y))
    \/ /\ calls # <<>> /\ Len(calls) < MaxCalls
       /\ calls[Len(calls)].op = "A"
       /\ Call("A_dagger", LastRet, CS_A_dagger(physics, LastRet))

CallAdjointnessTest ==
    /\ calls = <<>>
    /\ \E u \in Images(physics), v \in MeasurementInputs(physics) :
          Call("adjointness_test", [u |-> u, v |-> v], CS_adjointness_test(physics, u, v))

NextCS == CallA \/ CallAAdjoint \/ CallADagger \/ CallAdjointnessTest

SpecCS == InitCS /\ [][NextCS]_vars

(***************************************************************************)
(* Claims about the transforms and the CompressedSensing operator.         *)
(***************************************************************************)
AdjointnessTests == {i \in 1..Len(calls) : calls[i].op = "adjointness_test"}

\* C1: for a CompressedSensing operator in either mode, A_adjoint is the
\* exact adjoint of A: every adjointness_test finds <v, A(u)> equal to
\* <A_adjoint(v), u>, for every u, every probe v, and in fast mode every sign
\* vector D, mask and signal length n.
C1_AdjointExact ==
    \A i \in AdjointnessTests :
        RealEq(calls[i].ret.s1.val, calls[i].ret.s1.den,
               calls[i].ret.s2.val, calls[i].ret.s2.den)

\* C2: in fast mode A_dagger returns A_adjoint(y), and it inverts A on the
\* measurements: A applied to the result of A_dagger(y) gives back y, for a
\* measurement y given by the caller and for y = A(x).
C2_DaggerRightInverse ==
    physics.fast = TRUE =>
        \A i \in 1..Len(calls) :
            calls[i].op = "A_dagger" =>
                /\ calls[i].ret = CS_A_adjoint(physics, calls[i].arg)
                /\ (i < Len(calls) /\ calls[i + 1].op = "A")
                      => TensorEq(calls[i + 1].ret, calls[i].arg)

\* a fast operator on 4 positions that keeps 2 of them and flips a sign, a
\* nonzero measurement, A_dagger of it and A of the result
C2_Witness ==
    /\ physics.fast = TRUE
    /\ physics.n = 4 /\ Count(physics.mask) = 2 /\ physics.D[2] = -1
    /\ Len(calls) = 2
    /\ calls[1].op = "A_dagger" /\ calls[2].op = "A"
    /\ calls[1].arg.rows = <<<<1, 1>>>>

\* C3: hadamard is self-inverse when normalized: for n in {2, 4, 8, 16},
\* hadamard(hadamard(u, True), True) = u; and the unnormalized butterfly
\* applied twice yields n * u.
C3_HadamardSelfInverse ==
    \A i \in 1..(Len(had) - 1) :
        LET u == had[i].arg
            w == had[i + 1].ret
            n == Len(u.rows[1])
        IN  /\ (had[i].normalize /\ had[i + 1].normalize) => TensorEq(w, u)
            /\ (~had[i].normalize /\ ~had[i + 1].normalize) =>
                  /\ w.den = u.den
                  /\ \A b \in 1..Len(u.rows) : \A j \in 1..n :
                        w.rows[b][j] = n * u.rows[b][j]

\* a nonzero vector of length 16 transformed twice with normalization
C3_Witness ==
    /\ Len(had) = 2
    /\ had[1].normalize /\ had[2].normalize
    /\ Len(had[1].arg.rows[1]) = 16
    /\ had[1].arg.rows[1][3] = 1 /\ had[1].arg.rows[1][16] = -1
    /\ ~IsRaised(had[2].ret)

(***************************************************************************)
(* EPLL.__init__                                                           *)
(***************************************************************************)
\* the longest path given as pretrained_weights
MaxPathLen == 4

PathChars == {".", "p", "t", "a"}

\* strings are sequences of characters
Paths == UNION {[1..k -> PathChars] : k \in 0..MaxPathLen}

\* s[-3:]: the last three characters, or all of s when it is shorter
LastThreeMut(s) == SubSeq(s, 1, IF Len(s) < 3 THEN Len(s) ELSE 3)

LastThree(s) == SubSeq(s, IF Len(s) < 3 THEN 1 ELSE Len(s) - 2, Len(s))

\* GaussianMixtureModel(n_components, dimension): a mixture that no
\* parameter dictionary was loaded into
NewGMM(n_components, dimension) ==
    [n_components |-> n_components, dimension |-> dimension,
     loads |-> <<>>, cov_reg |-> None]

\* the mixtures a caller passes as GMM
GivenGMMs == {NewGMM(2, 4)}

\* torch.load(path)
TorchLoad(path) == [file |-> path]

\* GMM.load_parameter_dict(weights)
LoadParameterDict(gmm, weights) == [gmm EXCEPT !.loads = Append(@, weights)]

\* the components of the default mixture
DefaultComponents == 200

\* the object EPLL.__init__ leaves and the exception it raises; the
\* arguments GMM and pretrained_weights are None or Some(value)
EPLL__init__(gmmArg, pretrained_weights, patch_size, channels) ==
    LET gmm0 == IF gmmArg = None
                THEN NewGMM(DefaultComponents, patch_size * patch_size * channels)
                ELSE gmmArg.val
        truthy == pretrained_weights # None /\ pretrained_weights.val # <<>>
    IN  IF ~truthy
        THEN [GMM |-> gmm0, patch_size |-> patch_size, raised |-> NoError]
        ELSE IF LastThree(pretrained_weights.val) = <<".", "p", "t">>
        THEN [GMM |-> LoadParameterDict(gmm0, TorchLoad(pretrained_weights.val)),
              patch_size |-> patch_size, raised |-> NoError]
        ELSE [GMM |-> gmm0, patch_size |-> patch_size, raised |-> "NotImplementedError"]

InitCtor ==
    /\ NoPower
    /\ NoData
    /\ NoCS
    /\ NoTomo
    /\ ctor = NoCtor
    /\ GMM = <<>>
    /\ rec = <<>>
    /\ serialized = FALSE

\* one call EPLL(GMM, pretrained_weights, patch_size, channels)
EPLL_init ==
    /\ ctor.pc = "new"
    /\ \E gmmArg \in {Some(g) : g \in GivenGMMs} \cup {None},
          pw \in {Some(path) : path \in Paths} \cup {None},
          patch_size \in {2, 6}, channels \in {1, 3} :
          ctor' = [pc |-> "returned", gmmArg |-> gmmArg, pretrained_weights |-> pw,
                   self |-> EPLL__init__(gmmArg, pw, patch_size, channels)]
    /\ UNCHANGED <<csVars, tomoVars, pmVars, dataVars, GMM, rec, serialized>>

NextCtor == EPLL_init

SpecCtor == InitCtor /\ [][NextCtor]_vars

\* C9: constructing EPLL with a non-empty pretrained_weights path whose last
\* three characters are not ".pt" raises NotImplementedError and never calls
\* GMM.load_parameter_dict; with a ".pt" path the weights of that file are
\* loaded into the GMM; with pretrained_weights = None nothing is loaded.
C9_WeightsExtension ==
    ctor.pc = "returned" =>
        LET pw    == ctor.pretrained_weights
            path  == IF pw = None THEN <<>> ELSE pw.val
            n     == Len(path)
            isPt  == n >= 3 /\ path[n - 2] = "." /\ path[n - 1] = "p" /\ path[n] = "t"
            self  == ctor.self
        IN  /\ (pw # None /\ n > 0 /\ ~isPt) =>
                  self.raised = "NotImplementedError" /\ self.GMM.loads = <<>>
            /\ (pw # None /\ isPt) =>
                  self.raised = NoError /\ self.GMM.loads = <<[file |-> path]>>
            /\ pw = None => self.raised = NoError /\ self.GMM.loads = <<>>

\* a path ending in ".pta" was refused and nothing was loaded
C9_Witness ==
    /\ ctor.pc = "returned"
    /\ ctor.pretrained_weights = Some(<<".", "p", "t", "a">>)
    /\ ctor.self.raised = "NotImplementedError"
    /\ ctor.self.GMM.loads = <<>>

(***************************************************************************)
(* EPLL.reconstruction and EPLL._reconstruction_step                       *)
(*                                                                         *)
(* Floats are kept as exact fractions [num, den] in lowest terms.  An      *)
(* image is [shape |-> <<B, C, N, M>>, data |-> <<sample, ...>>], each     *)
(* sample the flat (channel, row, column) sequence of its pixels.          *)
(***************************************************************************)
\* pixels of the images given to reconstruction range over 0..MaxPix
MaxPix == 1

RECURSIVE GCD(_, _)
GCD(a, b) == IF b = 0 THEN a ELSE GCD(b, a % b)

Abs(a) == IF a < 0 THEN -a ELSE a

\* the fraction n / d, d # 0, in lowest terms with a positive denominator
Rat(n, d) ==
    LET g == GCD(Abs(n), Abs(d))
        sg == IF d < 0 THEN -1 ELSE 1
    IN  [num |-> sg * (n \div g), den |-> sg * (d \div g)]

RatDiv(a, b) == Rat(a.num * b.den, a.den * b.num)
RatAdd(a, b) == Rat(a.num * b.den + b.num * a.den, a.den * b.den)
RatInt(n) == Rat(n, 1)

\* the constants of the default schedule
DefaultBetaConstants == <<1, 4, 8, 16, 32>>

DefaultBetasMut(sigma_sq) ==
    [i \in 1..Len(DefaultBetaConstants) |->
        RatDiv(sigma_sq, RatInt(DefaultBetaConstants[i]))]

\* betas = [beta / sigma_sq for beta in [1., 4., 8., 16., 32.]]
DefaultBetas(sigma_sq) ==
    [i \in 1..Len(DefaultBetaConstants) |->
        RatDiv(RatInt(DefaultBetaConstants[i]), sigma_sq)]

\* the caller's physics: the identity operator (denoising), A_adjoint(y) = y
PhysicsAAdjoint(y) == y

\* ---- the Gaussian mixture (gmm.py is not part of the sources) ----------
\* A mixture of two zero-mean components on patches of dimension d: a
\* component with covariance 0 and one with the all-ones covariance J
\* (constant patches).

\* GMM.set_cov_reg(reg)
SetCovReg(gmm, reg) == [gmm EXCEPT !.cov_reg = Some(reg)]

\* GMM.classify(patches, cov_regularization=True), for one patch: the more
\* likely component under the regularized covariances
Classify(gmm, patch) == IF SumSeq(patch) = 0 THEN 1 ELSE 2

\* bmm(GMM.get_cov_inv_reg(), GMM.get_cov())[k] applied to one patch: the
\* matrix is 0 for component 1 and (J + reg I)^-1 J = J / (d + reg) for
\* component 2, with reg the regularization the mixture holds now
PatchEstimate(gmm, k, patch) ==
    LET d   == Len(patch)
        reg == gmm.cov_reg.val
    IN  [e \in 1..d |->
            IF k = 1 THEN RatInt(0)
            ELSE Rat(SumSeq(patch) * reg.den, d * reg.den + reg.num)]

\* ---- patches ----------------------------------------------------------
TotalPatchNumberMut(N, M, patch_size) == (N - patch_size) * (M - patch_size)

\* total_patch_number = (N - patch_size + 1) * (M - patch_size + 1)
TotalPatchNumber(N, M, patch_size) == (N - patch_size + 1) * (M - patch_size + 1)

\* patch_extractor (deepinv.utils is not part of the sources): the linear
\* pixel indices (1-based here) of the patch at linear position q, row-major
\* over the (N - p + 1) x (M - p + 1) positions, in (channel, row, column)
\* order
LinearInds(C, N, M, p, q) ==
    LET row == q \div (M - p + 1)
        col == q % (M - p + 1)
    IN  [e \in 1..(C * p * p) |->
            LET c  == (e - 1) \div (p * p)
                dy == ((e - 1) % (p * p)) \div p
                dx == (e - 1) % p
            IN  c * N * M + (row + dy) * M + (col + dx) + 1]

\* the patch of the flat image x at those indices
PatchAt(x, inds) == [e \in 1..Len(inds) |-> x[inds[e]]]

\* the sequences that take one element from each set of the sequence sets
RECURSIVE Choices(_)
Choices(sets) ==
    IF sets = <<>> THEN {<<>>}
    ELSE {<<h>> \o t : h \in Head(sets), t \in Choices(Tail(sets))}

\* t[linear_inds] += vals, where linear_inds and vals are sequences of rows
\* (one per patch of the batch).  This is t[linear_inds] = t[linear_inds] +
\* vals: the old entries are read, the sums are written back by index, and
\* where an index occurs more than once any one of the sums written to it
\* remains.
IndexAdd(t, linear_inds, vals) ==
    Choices([px \in 1..Len(t) |->
        LET hits == {<<j, e>> \in (1..Len(linear_inds)) \X (1..Len(linear_inds[1])) :
                        linear_inds[j][e] = px}
        IN  IF hits = {} THEN {t[px]}
            ELSE {RatAdd(t[px], vals[h[1]][h[2]]) : h \in hits}])

\* the floats that are no fractions
NaN == [nan |-> TRUE]
Inf == [inf |-> TRUE]

\* x_tilde_flattened /= patch_multiplicities, entrywise; 0 / 0 is nan
TrueDivide(a, b) ==
    [px \in 1..Len(a) |->
        IF b[px].num = 0 THEN (IF a[px].num = 0 THEN NaN ELSE Inf)
        ELSE RatDiv(a[px], b[px])]

Min(a, b) == IF a < b THEN a ELSE b

\* ---- the calls ----------------------------------------------------------
\* (B, C, N, M) of the images given as x_init
RecShapes == {<<1, 1, 2, 2>>, <<1, 1, 2, 3>>, <<1, 2, 1, 2>>, <<2, 1, 1, 2>>}

RecImages ==
    UNION {{[shape |-> sh, data |-> d] :
              d \in [1..sh[1] -> [1..(sh[2] * sh[3] * sh[4]) -> 0..MaxPix]]} :
           sh \in RecShapes}

PatchSizes == {1, 2, 3}

BatchSizeArgs == {-1, 1, 2, 7}

\* (sigma_sq, betas) given to reconstruction
ScheduleArgs ==
    {<<RatInt(1), None>>, <<RatInt(2), None>>, <<Rat(1, 2), None>>,
     <<RatInt(2), Some(<<>>)>>, <<RatInt(1), Some(<<Rat(1, 2), RatInt(3)>>)>>}

\* the frame of reconstruction(y, x_init, sigma_sq, physics, betas, batch_size)
\* (batches and cov_regs log, for each pass of the batching loop of the
\* current step, the range of patches taken and the regularization the
\* mixture held when they were classified and estimated)
\* on an EPLL object with this patch_size and the mixture GMM[gmm]
NewFrame(gmm, patch_size, x_init, schedule, batch_size) ==
    [pc |-> "call", gmm |-> gmm, patch_size |-> patch_size,
     y |-> x_init, x_init |-> x_init,
     sigma_sq |-> schedule[1], betas_arg |-> schedule[2], batch_size_arg |-> batch_size,
     betas |-> <<>>, k |-> 0, beta |-> None, x |-> None, Aty |-> None,
     total_patch_number |-> 0, batch_size |-> 0, ind |-> 0, batches |-> <<>>,
     cov_regs |-> <<>>,
     x_tilde_flattened |-> <<>>, patch_multiplicities |-> <<>>, x_tilde |-> <<>>,
     raised |-> NoError, ret |-> None]

InitEPLL ==
    /\ NoPower
    /\ NoData
    /\ NoCS
    /\ NoTomo
    /\ ctor = NoCtor
    /\ serialized = FALSE
    /\ GMM = <<NewGMM(2, 4)>>
    /\ \E x_init \in RecImages, patch_size \in PatchSizes,
          schedule \in ScheduleArgs, batch_size \in BatchSizeArgs :
          rec = <<NewFrame(1, patch_size, x_init, schedule, batch_size)>>

\* reconstruction, lines 55-62: the schedule, the batch of images, A^T y.
\* The recursive call for a batch of several images passes neither sigma_sq
\* nor physics, which the signature requires: it raises TypeError.
Reconstruction(t) ==
    LET f     == rec[t]
        betas == IF f.betas_arg = None THEN DefaultBetas(f.sigma_sq) ELSE f.betas_arg.val
    IN  /\ f.pc = "call"
        /\ IF f.y.shape[1] > 1
           THEN rec' = [rec EXCEPT ![t] = [f EXCEPT !.betas = betas, !.pc = "done",
                                                   !.raised = "TypeError"]]
           ELSE rec' = [rec EXCEPT ![t] = [f EXCEPT !.betas = betas, !.pc = "for",
                                                   !.x = Some(f.x_init),
                                                   !.Aty = Some(PhysicsAAdjoint(f.y))]]
        /\ UNCHANGED <<csVars, tomoVars, pmVars, dataVars, ctor, GMM, serialized>>

\* reconstruction, lines 63-65 with the schedule exhausted: return x
Return(t) ==
    LET f == rec[t]
    IN  /\ f.pc = "for"
        /\ f.k = Len(f.betas)
        /\ rec' = [rec EXCEPT ![t] = [f EXCEPT !.pc = "done", !.ret = f.x]]
        /\ UNCHANGED <<csVars, tomoVars, pmVars, dataVars, ctor, GMM, serialized>>

CovRegOfMut(beta) == beta

\* 1./beta, the regularization a step with this beta sets, line 69
CovRegOf(beta) == RatDiv(RatInt(1), beta)

\* the caller lets task t take a step: always when the reconstructions run
\* concurrently, and only after the tasks before t have finished when the
\* caller serializes them
Turn(t) ==
    IF serialized THEN \A u \in DOMAIN rec : u < t => rec[u].pc = "done" ELSE TRUE

\* the next beta: _reconstruction_step, lines 69-80
StepBegin(t) ==
    LET f     == rec[t]
        beta  == f.betas[f.k + 1]
        sh    == f.x.val.shape
        total == TotalPatchNumber(sh[3], sh[4], f.patch_size)
        bs    == IF f.batch_size_arg = -1 \/ f.batch_size_arg > total
                 THEN total ELSE f.batch_size_arg
        zeros == [px \in 1..(sh[2] * sh[3] * sh[4]) |-> RatInt(0)]
    IN  /\ f.pc = "for"
        /\ f.k < Len(f.betas)
        /\ GMM' = [GMM EXCEPT ![f.gmm] = SetCovReg(@, CovRegOf(beta))]
        /\ rec' = [rec EXCEPT ![t] = [f EXCEPT !.pc = "while", !.k = f.k + 1,
                      !.beta = Some(beta), !.total_patch_number = total,
                      !.batch_size = bs, !.ind = 0, !.batches = <<>>,
                      !.cov_regs = <<>>,
                      !.x_tilde_flattened = zeros, !.patch_multiplicities = zeros]]
        /\ UNCHANGED <<csVars, tomoVars, pmVars, dataVars, ctor, serialized>>

\* the most passes of the batching loop that are followed
MaxPasses == 7

\* one pass of the batching loop, lines 81-100.  With n_patches <= 0 the
\* pass extracts no patch: patch_extractor (outside the sources) and the
\* reshapes of its empty result either raise or go through, and then
\* ind = ind + n_patches does not advance.
WhileBatch(t) ==
    LET f         == rec[t]
        sh        == f.x.val.shape
        x         == f.x.val.data[1]
        n_patches == Min(f.batch_size, f.total_patch_number - f.ind)
    IN  /\ f.pc = "while"
        /\ f.ind < f.total_patch_number
        /\ Len(f.batches) < MaxPasses
        /\ IF n_patches >= 1
           THEN \E linear_inds \in {[j \in 1..n_patches |->
                       LinearInds(sh[2], sh[3], sh[4], f.patch_size, f.ind + j - 1)]} :
                \E patches \in {[j \in 1..n_patches |-> PatchAt(x, linear_inds[j])]} :
                \E k_star \in {[j \in 1..n_patches |-> Classify(GMM[f.gmm], patches[j])]} :
                \E patch_estimates \in {[j \in 1..n_patches |->
                       PatchEstimate(GMM[f.gmm], k_star[j], patches[j])]} :
                \E ones \in {[j \in 1..n_patches |->
                       [e \in 1..Len(linear_inds[j]) |-> RatInt(1)]]} :
                \E pm \in IndexAdd(f.patch_multiplicities, linear_inds, ones),
                   xt \in IndexAdd(f.x_tilde_flattened, linear_inds, patch_estimates) :
                   rec' = [rec EXCEPT ![t] = [f EXCEPT !.patch_multiplicities = pm,
                               !.x_tilde_flattened = xt, !.ind = f.ind + n_patches,
                               !.batches = Append(@, <<f.ind, n_patches>>),
                               !.cov_regs = Append(@, GMM[f.gmm].cov_reg)]]
           ELSE \E raises \in BOOLEAN :
                   rec' = [rec EXCEPT ![t] =
                              IF raises
                              THEN [f EXCEPT !.pc = "done", !.raised = "RuntimeError"]
                              ELSE [f EXCEPT !.ind = f.ind + n_patches,
                                       !.batches = Append(@, <<f.ind, n_patches>>),
                                       !.cov_regs = Append(@, GMM[f.gmm].cov_reg)]]
        /\ UNCHANGED <<csVars, tomoVars, pmVars, dataVars, ctor, GMM, serialized>>

\* the loop is left, line 102: x_tilde_flattened /= patch_multiplicities
Divide(t) ==
    LET f == rec[t]
    IN  /\ f.pc = "while"
        /\ ~(f.ind < f.total_patch_number)
        /\ rec' = [rec EXCEPT ![t] = [f EXCEPT !.pc = "cg",
                      !.x_tilde = TrueDivide(f.x_tilde_flattened, f.patch_multiplicities)]]
        /\ UNCHANGED <<csVars, tomoVars, pmVars, dataVars, ctor, GMM, serialized>>

\* lines 105-108.  The module imports patch_extractor from deepinv.utils and
\* never binds the name deepinv, so evaluating
\* deepinv.optim.utils.conjugate_gradient raises NameError.
ConjugateGradient(t) ==
    LET f == rec[t]
    IN  /\ f.pc = "cg"
        /\ rec' = [rec EXCEPT ![t] = [f EXCEPT !.pc = "done", !.raised = "NameError"]]
        /\ UNCHANGED <<csVars, tomoVars, pmVars, dataVars, ctor, GMM, serialized>>

NextEPLL ==
    \/ \E t \in DOMAIN rec : Turn(t) /\ Reconstruction(t)
    \/ \E t \in DOMAIN rec : Turn(t) /\ Return(t)
    \/ \E t \in DOMAIN rec : Turn(t) /\ StepBegin(t)
    \/ \E t \in DOMAIN rec : Turn(t) /\ WhileBatch(t)
    \/ \E t \in DOMAIN rec : Turn(t) /\ Divide(t)
    \/ \E t \in DOMAIN rec : Turn(t) /\ ConjugateGradient(t)

SpecEPLL == InitEPLL /\ [][NextEPLL]_vars

(***************************************************************************)
(* Claims about EPLL.reconstruction.                                       *)
(***************************************************************************)
\* C4: reconstruction called with a batch of B > 1 samples completes and
\* returns the concatenation along dimension 0 of the B single-sample
\* reconstructions (with an empty schedule these are the samples of x_init).
C4_BatchConcatenation ==
    \A t \in DOMAIN rec :
        (rec[t].pc = "done" /\ rec[t].y.shape[1] > 1) =>
            /\ rec[t].raised = NoError
            /\ rec[t].ret # None
            /\ rec[t].ret.val.shape = rec[t].x_init.shape
            /\ rec[t].betas = <<>> => rec[t].ret.val = rec[t].x_init

\* the run of the batching loop and the division with batch_size 1, one
\* patch at a time from patch q on, for the frame f
RECURSIVE C5_OnePatchAtATime(_, _, _, _)
C5_OnePatchAtATime(f, q, xt, pm) ==
    IF ~(q < f.total_patch_number) THEN TrueDivide(xt, pm)
    ELSE LET sh    == f.x.val.shape
             inds  == LinearInds(sh[2], sh[3], sh[4], f.patch_size, q)
             patch == PatchAt(f.x.val.data[1], inds)
             est   == PatchEstimate(GMM[f.gmm], Classify(GMM[f.gmm], patch), patch)
             ones  == [e \in 1..Len(inds) |-> RatInt(1)]
         IN  C5_OnePatchAtATime(f, q + 1,
                 CHOOSE a \in IndexAdd(xt, <<inds>>, <<est>>) : TRUE,
                 CHOOSE b \in IndexAdd(pm, <<inds>>, <<ones>>) : TRUE)

\* C5: batch_size has no effect on the output: whatever batch_size the step
\* was called with, the patch-consensus image x_tilde it forms is the one
\* formed with batch_size 1.
C5_BatchSizeNoEffect ==
    \A t \in DOMAIN rec :
        rec[t].pc = "cg" =>
            LET zeros == [px \in 1..Len(rec[t].x_tilde) |-> RatInt(0)]
            IN  rec[t].x_tilde = C5_OnePatchAtATime(rec[t], 0, zeros, zeros)

\* the (patch, entry) pairs of the image of frame f that lie on pixel px
C6_Covering(f, px) ==
    LET sh == f.x.val.shape
    IN  {<<q, e>> \in (0..(f.total_patch_number - 1))
                        \X (1..(sh[2] * f.patch_size * f.patch_size)) :
            LinearInds(sh[2], sh[3], sh[4], f.patch_size, q)[e] = px}

\* the estimate of patch q of frame f at its entry e
C6_EstimateAt(f, q, e) ==
    LET sh    == f.x.val.shape
        patch == PatchAt(f.x.val.data[1],
                         LinearInds(sh[2], sh[3], sh[4], f.patch_size, q))
    IN  PatchEstimate(GMM[f.gmm], Classify(GMM[f.gmm], patch), patch)[e]

RECURSIVE C6_SumOver(_, _)
C6_SumOver(f, pairs) ==
    IF pairs = {} THEN RatInt(0)
    ELSE LET h == CHOOSE h \in pairs : TRUE
         IN  RatAdd(C6_EstimateAt(f, h[1], h[2]), C6_SumOver(f, pairs \ {h}))

\* C6: after the patch-accumulation pass, patch_multiplicities[p] is the
\* number of overlapping patches that cover pixel p, and x_tilde_flattened[p]
\* (before the division) is the sum of the estimates at p of all the patches
\* covering p, also when several patches of one batch cover the same pixel.
C6_Accumulation ==
    \A t \in DOMAIN rec :
        (rec[t].pc = "while" /\ ~(rec[t].ind < rec[t].total_patch_number)) =>
            \A px \in 1..Len(rec[t].patch_multiplicities) :
                /\ rec[t].patch_multiplicities[px]
                      = RatInt(Cardinality(C6_Covering(rec[t], px)))
                /\ rec[t].x_tilde_flattened[px]
                      = C6_SumOver(rec[t], C6_Covering(rec[t], px))

\* C7: whenever patch_size <= both image dimensions, at the end of the
\* patch-accumulation pass every pixel's coverage count is >= 1, for every
\* batch_size, so the division never divides by zero.
C7_CoverageAtLeastOne ==
    \A t \in DOMAIN rec :
        LET f == rec[t]
        IN  (f.pc \in {"while", "cg"} /\ ~(f.ind < f.total_patch_number)
             /\ f.patch_size <= f.x.val.shape[3] /\ f.patch_size <= f.x.val.shape[4]) =>
                /\ \A px \in 1..Len(f.patch_multiplicities) :
                      f.patch_multiplicities[px].num >= 1
                /\ f.pc = "cg" =>
                      \A px \in 1..Len(f.x_tilde) : f.x_tilde[px] \notin {NaN, Inf}

\* the pass over a 2 x 3 image with 2 x 2 patches taken in one batch is
\* over and the division is done
C7_Witness ==
    /\ rec # <<>>
    /\ rec[1].pc = "cg"
    /\ rec[1].x.val.shape = <<1, 1, 2, 3>>
    /\ rec[1].patch_size = 2
    /\ rec[1].batch_size_arg = -1
    /\ rec[1].batches = <<<<0, 2>>>>
    /\ rec[1].x.val.data[1] = <<1, 1, 0, 0, 1, 1>>

\* C8: when betas is None, reconstruction uses the schedule
\* [c / sigma_sq for c in (1, 4, 8, 16, 32)] in that order; for sigma_sq = 2
\* this is [0.5, 2, 4, 8, 16].  A caller-supplied betas list is used
\* unchanged.  A step takes its beta from the list by position.
C8_Schedule ==
    \A t \in DOMAIN rec :
        LET f == rec[t]
        IN  f.pc # "call" =>
              /\ f.betas_arg = None =>
                    /\ Len(f.betas) = 5
                    /\ \A i \in 1..5 :
                          f.betas[i].num * f.sigma_sq.num
                            = <<1, 4, 8, 16, 32>>[i] * f.betas[i].den * f.sigma_sq.den
              /\ (f.betas_arg = None /\ f.sigma_sq = [num |-> 2, den |-> 1]) =>
                    f.betas = <<[num |-> 1, den |-> 2], [num |-> 2, den |-> 1],
                                [num |-> 4, den |-> 1], [num |-> 8, den |-> 1],
                                [num |-> 16, den |-> 1]>>
              /\ f.betas_arg # None => f.betas = f.betas_arg.val
              /\ f.k >= 1 => f.beta = Some(f.betas[f.k])

\* the default schedule for sigma_sq = 2 is in use in the first step
C8_Witness ==
    /\ rec # <<>>
    /\ rec[1].betas_arg = None
    /\ rec[1].sigma_sq = [num |-> 2, den |-> 1]
    /\ rec[1].pc = "while"
    /\ rec[1].k = 1
    /\ rec[1].beta = Some([num |-> 1, den |-> 2])
    /\ GMM[1].cov_reg = Some([num |-> 2, den |-> 1])

(***************************************************************************)
(* Tomography                                                              *)
(***************************************************************************)
\* the longest sequence of calls made on one Tomography operator
MaxTomoCalls == 3

\* the end of the angle range of torch.linspace(0, 180, steps=angles + 1)
LinspaceEnd == 180

\* __init__, lines 92-98: an integer angles, [int |-> k] here, gives
\* torch.linspace(0, 180, steps=angles + 1)[:-1]; a tensor,
\* [tensor |-> <<angle, ...>>] here, is taken as given
Theta(angles) ==
    IF "int" \in DOMAIN angles
    THEN [i \in 1..angles.int |-> Rat(LinspaceEnd * (i - 1), angles.int)]
    ELSE angles.tensor

\* Tomography.__init__: the attributes of the operator
Tomography(angles, img_width, fan_beam) ==
    [theta |-> Theta(angles), fan_beam |-> fan_beam, img_width |-> img_width]

\* the arguments given to the constructor
TomoAngles == {[int |-> 1], [int |-> 2], [int |-> 3]}
TomoAngleTensors == {[tensor |-> <<RatInt(0), RatInt(45)>>]}
TomoWidths == {2, 3}

\* Tomography.A on an image of width w: the operator after the call and the
\* result (the sinogram of self.radon, left uncomputed)
Tomo_AMut(self, w) ==
    [self |-> self, ret |-> [radon |-> w]]

Tomo_A(self, w) ==
    [self |-> IF self.img_width = None THEN [self EXCEPT !.img_width = Some(w)] ELSE self,
     ret  |-> [radon |-> w]]

\* Tomography.A_adjoint.  With fan_beam the adjoint is built from self.A by
\* adjoint_function on images of width self.img_width.
Tomo_A_adjoint(self) ==
    IF self.fan_beam
    THEN IF self.img_width = None
         THEN [self |-> self,
               ret  |-> Raised("AssertionError: Image size unknown. Apply forward operator or add it for initialization.")]
         ELSE [self |-> Tomo_A(self, self.img_width.val).self,
               ret  |-> [adjoint_of_A |-> self.img_width.val]]
    ELSE [self |-> self, ret |-> [iradon |-> "filtering=False"]]

\* Tomography.A_dagger
Tomo_A_dagger(self) ==
    IF self.fan_beam
    THEN Tomo_A_adjoint(self)
    ELSE [self |-> self, ret |-> [iradon |-> "filtering=True"]]

InitTomo ==
    /\ NoPower
    /\ NoData
    /\ NoCS
    /\ NoEPLL
    /\ \E angles \in TomoAngles \cup TomoAngleTensors,
          img_width \in {Some(w) : w \in TomoWidths} \cup {None},
          fan_beam \in BOOLEAN :
          tomo = [init_img_width |-> img_width, init_angles |-> angles,
                  self |-> Tomography(angles, img_width, fan_beam)]
    /\ tcalls = <<>>

\* a call: the operator as the call leaves it, and the call and its result
\* appended to the log
TomoA ==
    /\ Len(tcalls) < MaxTomoCalls
    /\ \E w \in TomoWidths :
          /\ tomo' = [tomo EXCEPT !.self = Tomo_A(tomo.self, w).self]
          /\ tcalls' = Append(tcalls, [op |-> "A", ret |-> Tomo_A(tomo.self, w).ret])
    /\ UNCHANGED <<csVars, epllVars, pmVars, dataVars>>

TomoAAdjoint ==
    /\ Len(tcalls) < MaxTomoCalls
    /\ tomo' = [tomo EXCEPT !.self = Tomo_A_adjoint(tomo.self).self]
    /\ tcalls' = Append(tcalls, [op |-> "A_adjoint", ret |-> Tomo_A_adjoint(tomo.self).ret])
    /\ UNCHANGED <<csVars, epllVars, pmVars, dataVars>>

TomoADagger ==
    /\ Len(tcalls) < MaxTomoCalls
    /\ tomo' = [tomo EXCEPT !.self = Tomo_A_dagger(tomo.self).self]
    /\ tcalls' = Append(tcalls, [op |-> "A_dagger", ret |-> Tomo_A_dagger(tomo.self).ret])
    /\ UNCHANGED <<csVars, epllVars, pmVars, dataVars>>

NextTomo == TomoA \/ TomoAAdjoint \/ TomoADagger

SpecTomo == InitTomo /\ [][NextTomo]_vars

\* C10: for a fan-beam Tomography operator constructed with img_width=None,
\* calling A_adjoint before any call to A fails with an assertion error
\* stating that the image size is unknown; after at least one call to A, or
\* when img_width was given at construction, A_adjoint does not raise it.
C10_FanBeamAdjointNeedsWidth ==
    \A i \in 1..Len(tcalls) :
        (tcalls[i].op = "A_adjoint" /\ tomo.self.fan_beam) =>
            LET unknown == /\ tomo.init_img_width = None
                           /\ \A j \in 1..(i - 1) : tcalls[j].op # "A"
                err     == [raised |-> "AssertionError: Image size unknown. Apply forward operator or add it for initialization."]
            IN  IF unknown THEN tcalls[i].ret = err ELSE tcalls[i].ret # err

\* a fan-beam operator built without img_width: A_adjoint fails, then A is
\* called, then A_adjoint succeeds
C10_Witness ==
    /\ tomo # None
    /\ tomo.self.fan_beam
    /\ tomo.init_img_width = None
    /\ Len(tcalls) = 3
    /\ tcalls[1].op = "A_adjoint" /\ IsRaised(tcalls[1].ret)
    /\ tcalls[2].op = "A"
    /\ tcalls[3].op = "A_adjoint" /\ ~IsRaised(tcalls[3].ret)

(***************************************************************************)
(* CompressedSensing.power_method                                          *)
(*                                                                         *)
(* The iterate x is only used through z = <x, y> / |x|^2 with              *)
(* y = A_adjoint(A(x)), which does not change when x is multiplied by a    *)
(* positive number; x = y / norm(y) is kept as the integer vector of the   *)
(* same direction with coprime entries.  z is an exact fraction.           *)
(***************************************************************************)
\* the largest max_iter given to power_method
MaxIter == 3

RatNeg(a) == [num |-> -a.num, den |-> a.den]
RatLess(a, b) == a.num * b.den < b.num * a.den
RatAbs(a) == [num |-> Abs(a.num), den |-> a.den]

\* the s >= 0 with s * s = d (d is a perfect square)
ISqrt(d) == CHOOSE s \in 0..d : s * s = d

RECURSIVE GCDSeq(_)
GCDSeq(r) == IF r = <<>> THEN 0 ELSE GCD(Abs(Head(r)), GCDSeq(Tail(r)))

IsZero(t) == \A i \in 1..Len(t.rows) : \A j \in 1..Len(t.rows[i]) : t.rows[i][j] = 0

\* y / torch.norm(y): the direction of y; nan when y = 0
Direction(y) ==
    IF IsZero(y) THEN NaN
    ELSE LET g == GCDSeq(Flatten(y.rows))
         IN  [rows |-> Built([i \in 1..Len(y.rows) |->
                          Built([j \in 1..Len(y.rows[i]) |-> y.rows[i][j] \div g])]),
              den  |-> 1]

\* torch.matmul(x.reshape(-1), y.reshape(-1)) / torch.norm(x) ** 2, x.den = 1
Rayleigh(x, y) ==
    Rat(Dot(x, y).val, Dot(x, x).val * ISqrt(y.den))

\* rel_var < tol, where rel_var = torch.norm(z - zold).  Before the first
\* assignment zold = z, zold is torch.zeros_like(x): z - zold is then a tensor
\* of numel entries all equal to z, and its norm is |z| * sqrt(numel).
RelVarBelowTol(z, zold, tol) ==
    IF z = NaN \/ zold = NaN THEN FALSE
    ELSE IF "zeros_like" \in DOMAIN zold
    THEN z.num * z.num * zold.zeros_like * tol.den * tol.den
            < tol.num * tol.num * z.den * z.den
    ELSE RatLess(RatAbs(RatAdd(z, RatNeg(zold))), tol)

\* if rel_var < tol and verbose: break
Breaks(f, z) == RelVarBelowTol(z, f.zold, f.tol) /\ f.verbose

\* one pass through the body of  for it in range(max_iter)
PowerBody(self, f) ==
    LET y == IF f.x = NaN THEN NaN ELSE CS_A_adjoint(self, CS_A(self, f.x))
        z == IF f.x = NaN THEN NaN ELSE Rayleigh(f.x, y)
    IN  IF Breaks(f, z)
        THEN [f EXCEPT !.z = Some(z), !.zs = Append(f.zs, z), !.pc = "break"]
        ELSE [f EXCEPT !.z = Some(z), !.zs = Append(f.zs, z), !.zold = z,
                       !.x = IF y = NaN THEN NaN ELSE Direction(y),
                       !.it = f.it + 1]

\* return z; z is unbound when the loop body never ran
PowerReturnValue(f) ==
    IF f.z = None
    THEN [f EXCEPT !.pc = "done", !.raised = "UnboundLocalError"]
    ELSE [f EXCEPT !.pc = "done", !.ret = f.z]

\* the operators power_method is called on
PowerOperators ==
    {o \in CSOperators : ~o.channelwise /\ Prod(o.img_shape) <= 3}

\* the directions of the draw torch.randn_like(x0)
PowerDraws(self) == {x \in Images(self) : ~IsZero(x)}

\* tol: the default 1e-3, and 1
TolArgs == {Rat(1, 1000), Rat(1, 1)}

InitPower ==
    /\ had = <<>>
    /\ physics \in PowerOperators
    /\ calls = <<>>
    /\ NoEPLL
    /\ NoTomo
    /\ NoPower
    /\ NoData

\* power_method(x0, max_iter, tol, verbose) up to the head of the loop
PowerMethodCall ==
    /\ power = None
    /\ \E x \in PowerDraws(physics), max_iter \in 0..MaxIter, tol \in TolArgs,
          verbose \in BOOLEAN :
          power' = [pc |-> "for", x |-> x, numel |-> Len(Flatten(x.rows)),
                    zold |-> [zeros_like |-> Len(Flatten(x.rows))],
                    z |-> None, zs |-> <<>>, it |-> 0,
                    max_iter |-> max_iter, tol |-> tol, verbose |-> verbose,
                    ret |-> None, raised |-> NoError]
    /\ UNCHANGED <<csVars, epllVars, tomoVars, dataVars>>

PowerIterate ==
    /\ power # None /\ power.pc = "for" /\ power.it < power.max_iter
    /\ power' = PowerBody(physics, power)
    /\ UNCHANGED <<csVars, epllVars, tomoVars, dataVars>>

PowerReturn ==
    /\ power # None
    /\ \/ power.pc = "break"
       \/ power.pc = "for" /\ power.it >= power.max_iter
    /\ power' = PowerReturnValue(power)
    /\ UNCHANGED <<csVars, epllVars, tomoVars, dataVars>>

NextPower == PowerMethodCall \/ PowerIterate \/ PowerReturn

SpecPower == InitPower /\ [][NextPower]_vars

\* the change of the estimate at iteration i (1-based) is below tol: the
\* change is torch.norm(z - zold) with the zold of that iteration, which is
\* torch.zeros_like(x) at the first iteration and the previous z afterwards
C11_Below(f, i) ==
    RelVarBelowTol(f.zs[i],
                   IF i = 1 THEN [zeros_like |-> f.numel] ELSE f.zs[i - 1],
                   f.tol)

\* C11: power_method leaves its loop at the first iteration at which the
\* change |z - zold| of the estimate is below tol, or after max_iter
\* iterations, whichever comes first, whatever the verbose flag is, and then
\* returns the current estimate z without raising.
C11_PowerMethodExits ==
    (power # None /\ power.pc = "done") =>
        LET zs == power.zs
            n  == Len(zs)
        IN  /\ power.raised = NoError
            /\ n <= power.max_iter
            /\ \A i \in 1..(n - 1) : ~C11_Below(power, i)
            /\ n < power.max_iter => C11_Below(power, n)
            /\ n >= 1 /\ power.ret = Some(zs[n])

(***************************************************************************)
(* Frame conditions on the operators.                                      *)
(***************************************************************************)
\* a step leaves every attribute of the CompressedSensing operator as it was
CSUnchanged == physics # NoPhysics => physics' = physics

\* a step leaves every attribute of the Tomography operator as it was
TomoUnchanged == tomo # None => tomo'.self = tomo.self

\* C12: operators are immutable after construction: after any sequence of
\* calls to A, A_adjoint and A_dagger (and power_method / adjointness_test)
\* every attribute of a CompressedSensing or Tomography operator (D, mask,
\* _A, _A_dagger, _A_adjoint, img_shape, img_width, fan_beam, angles) has the
\* value it had right after construction.
C12_OperatorsImmutable == [][CSUnchanged /\ TomoUnchanged]_vars

\* the CompressedSensing half of C12 on its own
C12_CSImmutable == [][CSUnchanged]_vars

(***************************************************************************)
(* The mixture during reconstruction.                                      *)
(***************************************************************************)
\* C13: EPLL.reconstruction uses the Gaussian mixture read-only: no step of
\* a reconstruction writes the mixture, so its state, the covariance
\* regularization (and the regularized inverse covariances derived from it)
\* included, is after the call what it was before the call, for every beta
\* schedule.
C13_GMMReadOnly == [][GMM' = GMM]_vars

(***************************************************************************)
(* The projection angles of Tomography.                                    *)
(***************************************************************************)
\* the full turn, in degrees, of the documented sampling
FullTurn == 360

\* C14: when Tomography is constructed with an integer angles = k, the k
\* projection angles are sampled uniformly between 0 and 360 degrees: angle i
\* is i * 360 / k for i = 0..k-1.
C14_AnglesOverFullTurn ==
    (tomo # None /\ "int" \in DOMAIN tomo.init_angles) =>
        LET k == tomo.init_angles.int
        IN  /\ Len(tomo.self.theta) = k
            /\ \A i \in 0..(k - 1) : tomo.self.theta[i + 1] = Rat(i * FullTurn, k)

(***************************************************************************)
(* PatchDataset                                                            *)
(*                                                                         *)
(* imgs is a tensor of shape (B, C, H, W), kept as its shape and its       *)
(* entries in row-major order.  A patch is kept as a sequence of C         *)
(* channels, each a sequence of rows.                                      *)
(***************************************************************************)
\* the largest height and width of the images of a dataset
MaxSide == 3

\* imgs[b, c, r, q], all indices 0-based
ImgAt(imgs, b, c, r, q) ==
    imgs.data[((b * imgs.shape[2] + c) * imgs.shape[3] + r) * imgs.shape[4] + q + 1]

\* a:b clipped to a dimension of size n, as slicing does (0 <= a)
SliceRange(a, b, n) == Min(a, n)..(Min(b, n) - 1)

\* the i-th element of a finite set of integers in increasing order
RECURSIVE SortedSeq(_)
SortedSeq(S) ==
    IF S = {} THEN <<>>
    ELSE LET m == CHOOSE x \in S : \A y \in S : x <= y
         IN  <<m>> \o SortedSeq(S \ {m})

\* imgs[idx_img, :, idx_x:idx_x+p, idx_y:idx_y+p]
SlicePatch(imgs, idx_img, idx_x, idx_y, p) ==
    LET rs == SortedSeq(SliceRange(idx_x, idx_x + p, imgs.shape[3]))
        qs == SortedSeq(SliceRange(idx_y, idx_y + p, imgs.shape[4]))
    IN  Built([c \in 1..imgs.shape[2] |->
            Built([i \in 1..Len(rs) |->
                Built([j \in 1..Len(qs) |-> ImgAt(imgs, idx_img, c - 1, rs[i], qs[j])])])])

\* patch.reshape(-1)
ReshapeFlat(patch) == Flatten(Flatten(patch))

\* RandomHorizontalFlip / RandomVerticalFlip when the flip is drawn
HFlip(patch) ==
    [c \in 1..Len(patch) |-> [i \in 1..Len(patch[c]) |->
        [j \in 1..Len(patch[c][i]) |-> patch[c][i][Len(patch[c][i]) + 1 - j]]]]

VFlip(patch) ==
    [c \in 1..Len(patch) |-> [i \in 1..Len(patch[c]) |-> patch[c][Len(patch[c]) + 1 - i]]]

\* torch.rot90(x, dims=[-2, -1]) of square patches: out[i][j] = x[j][n-1-i]
Rot90(patch) ==
    [c \in 1..Len(patch) |-> [i \in 1..Len(patch[c]) |->
        [j \in 1..Len(patch[c]) |-> patch[c][j][Len(patch[c]) + 1 - i]]]]

\* the transforms argument: None, the string 'flip and rotate', or a
\* callable (here lambda x: x + 1)
TransformArgs == {None, [str |-> "flip and rotate"], [callable |-> "x + 1"]}

\* __init__, lines 16-21: a string becomes the Compose of the two random
\* flips and the rotation
MakeTransforms(transforms) ==
    IF transforms # None /\ "str" \in DOMAIN transforms
    THEN [compose |-> <<"RandomHorizontalFlip", "RandomVerticalFlip", "rot90">>]
    ELSE transforms

\* self.transforms(patch): the patches the call can return
ApplyTransforms(transforms, patch) ==
    IF "compose" \in DOMAIN transforms
    THEN {Rot90(v) : v \in UNION {{h, VFlip(h)} : h \in {patch, HFlip(patch)}}}
    ELSE {[c \in 1..Len(patch) |-> [i \in 1..Len(patch[c]) |->
             [j \in 1..Len(patch[c][i]) |-> patch[c][i][j] + 1]]]}

\* bool(self.transforms)
Truthy(transforms) == transforms # None

\* PatchDataset.__init__
PatchDataset(imgs, patch_size, transforms) ==
    [imgs |-> imgs, patch_size |-> patch_size,
     patches_per_image |-> (imgs.shape[3] - patch_size + 1) * (imgs.shape[4] - patch_size + 1),
     transforms |-> MakeTransforms(transforms)]

\* PatchDataset.__len__
PD__len__(self) == self.imgs.shape[1] * self.patches_per_image

\* the patch position __getitem__ computes from idx (idx >= 0)
PatchPositionMut(self, idx) ==
    LET idx_in_img == idx % self.patches_per_image
    IN  [idx_img |-> idx \div self.patches_per_image,
         idx_x   |-> idx_in_img \div (self.imgs.shape[3] - self.patch_size + 1),
         idx_y   |-> idx_in_img % (self.imgs.shape[3] - self.patch_size + 1)]

PatchPosition(self, idx) ==
    LET idx_in_img == idx % self.patches_per_image
    IN  [idx_img |-> idx \div self.patches_per_image,
         idx_x   |-> idx_in_img \div (self.imgs.shape[4] - self.patch_size + 1),
         idx_y   |-> idx_in_img % (self.imgs.shape[4] - self.patch_size + 1)]

\* PatchDataset.__getitem__: the pairs (patch.reshape(-1), idx) the call can
\* return
PD__getitem__(self, idx) ==
    LET pos   == PatchPosition(self, idx)
        patch == SlicePatch(self.imgs, pos.idx_img, pos.idx_x, pos.idx_y, self.patch_size)
        out   == IF Truthy(self.transforms) /\ FALSE
                 THEN ApplyTransforms(self.transforms, patch)
                 ELSE {patch}
    IN  {<<ReshapeFlat(t), idx>> : t \in out}

\* the shapes (B, C, H, W) of imgs
DataShapes ==
    {<<B, C, H, W>> : B \in 1..2, C \in 1..2, H \in 1..MaxSide, W \in 1..MaxSide}

\* the images of a shape: every pixel holds its own number, so that a patch
\* tells where it was cut
RampImage(shape) ==
    [shape |-> shape,
     data  |-> [k \in 1..(shape[1] * shape[2] * shape[3] * shape[4]) |-> k - 1]]

InitData ==
    /\ NoCS
    /\ NoEPLL
    /\ NoTomo
    /\ NoPower
    /\ \E shape \in DataShapes, transforms \in TransformArgs :
       \E patch_size \in 1..Min(shape[3], shape[4]) :
          ds = [self |-> PatchDataset(RampImage(shape), patch_size, transforms),
                init_transforms |-> transforms,
                last |-> None]

\* len(dataset)
DataLen ==
    /\ ds # None
    /\ ds' = [ds EXCEPT !.last = [op |-> "__len__", ret |-> PD__len__(ds.self)]]
    /\ UNCHANGED <<csVars, epllVars, tomoVars, pmVars>>

\* dataset[idx]
DataGetItem ==
    /\ ds # None
    /\ \E idx \in 0..(PD__len__(ds.self) - 1) :
       \E ret \in PD__getitem__(ds.self, idx) :
          ds' = [ds EXCEPT !.last = [op |-> "__getitem__", idx |-> idx, ret |-> ret]]
    /\ UNCHANGED <<csVars, epllVars, tomoVars, pmVars>>

NextData == DataLen \/ DataGetItem

SpecData == InitData /\ [][NextData]_vars

\* the raw patch of the last __getitem__ call, before flattening
C15_RawPatch ==
    LET pos == PatchPosition(ds.self, ds.last.idx)
    IN  SlicePatch(ds.self.imgs, pos.idx_img, pos.idx_x, pos.idx_y, ds.self.patch_size)

\* C15: PatchDataset applies the configured data augmentation: when
\* transforms is a callable or the string 'flip and rotate', __getitem__(idx)
\* returns the transformed patch (transforms applied to the extracted patch
\* before flattening); only when transforms is None is the raw patch
\* returned.
C15_TransformsApplied ==
    (ds # None /\ ds.last # None /\ ds.last.op = "__getitem__") =>
        IF ds.init_transforms = None
        THEN ds.last.ret[1] = ReshapeFlat(C15_RawPatch)
        ELSE ds.last.ret[1] \in
                {ReshapeFlat(t) : t \in ApplyTransforms(ds.self.transforms, C15_RawPatch)}

\* the position (image, row, column) of the pixel numbered id in the ramp
\* image of the dataset
C19_PixelPosition(id) ==
    LET sh == ds.self.imgs.shape
    IN  [idx_img |-> id \div (sh[2] * sh[3] * sh[4]),
         idx_x   |-> (id \div sh[4]) % sh[3],
         idx_y   |-> id % sh[4]]

\* the entries of the patch of size p at (image, row, column), flattened
C19_PatchEntries(pos) ==
    LET sh == ds.self.imgs.shape
        p  == ds.self.patch_size
    IN  Flatten(Flatten(
            [c \in 1..sh[2] |-> [i \in 1..p |-> [j \in 1..p |->
                ((pos.idx_img * sh[2] + (c - 1)) * sh[3] + pos.idx_x + (i - 1)) * sh[4]
                    + pos.idx_y + (j - 1)]]]))

\* C19: PatchDataset indexing is a bijection onto in-bounds patch positions:
\* for images of shape B x C x H x W and patch_size p <= min(H, W), __len__
\* is B*(H-p+1)*(W-p+1), and __getitem__ maps the indices 0..len-1 one-to-one
\* onto the triples (image, row, column) with 0 <= row <= H-p and
\* 0 <= column <= W-p, row-major within each image; every returned patch has
\* exactly C*p*p entries lying inside the image, and the returned second
\* component equals idx.
C19_IndexBijection ==
    (ds # None /\ ds.last # None) =>
        LET sh  == ds.self.imgs.shape
            p   == ds.self.patch_size
            len == sh[1] * (sh[3] - p + 1) * (sh[4] - p + 1)
        IN  IF ds.last.op = "__len__" THEN ds.last.ret = len
            ELSE LET idx == ds.last.idx
                     ret == ds.last.ret
                     pos == C19_PixelPosition(ret[1][1])
                 IN  /\ ret[2] = idx
                     /\ Len(ret[1]) = sh[2] * p * p
                     /\ pos.idx_img \in 0..(sh[1] - 1)
                     /\ pos.idx_x \in 0..(sh[3] - p)
                     /\ pos.idx_y \in 0..(sh[4] - p)
                     /\ ret[1] = C19_PatchEntries(pos)
                     /\ idx = (pos.idx_img * (sh[3] - p + 1) + pos.idx_x) * (sh[4] - p + 1)
                                + pos.idx_y
                     /\ \A i2 \in 0..(len - 1) : i2 # idx =>
                            \A r \in PD__getitem__(ds.self, i2) :
                                r[1] # <<>> /\ r[1][1] # ret[1][1]
                     /\ \A b \in 0..(sh[1] - 1), x \in 0..(sh[3] - p), y \in 0..(sh[4] - p) :
                            \E i2 \in 0..(len - 1) : \E r \in PD__getitem__(ds.self, i2) :
                                /\ r[1] # <<>>
                                /\ C19_PixelPosition(r[1][1]) =
                                       [idx_img |-> b, idx_x |-> x, idx_y |-> y]

\* the last patch of the second image of a 2 x 2 x 2 x 3 tensor, p = 1, was
\* returned for idx = 11
C19_Witness ==
    /\ ds # None /\ ds.last # None /\ ds.last.op = "__getitem__"
    /\ ds.self.imgs.shape = <<2, 2, 2, 3>>
    /\ ds.self.patch_size = 1
    /\ ds.last.idx = 11
    /\ ds.last.ret = <<<<17, 23>>, 11>>

(***************************************************************************)
(* The course of a reconstruction.                                         *)
(***************************************************************************)
\* C16: for a single-sample call, reconstruction computes A_adjoint(y) once
\* before the first splitting step, then runs exactly one
\* _reconstruction_step per element of betas, in list order, each step taking
\* the previous step's output as its x (the first taking x_init), and returns
\* the output of the last step; with an empty betas list it returns x_init
\* unchanged.
C16_OneStepPerBeta ==
    \A t \in DOMAIN rec :
        (rec[t].pc = "done" /\ rec[t].y.shape[1] = 1) =>
            /\ rec[t].raised = NoError
            /\ rec[t].Aty = Some(PhysicsAAdjoint(rec[t].y))
            /\ rec[t].k = Len(rec[t].betas)
            /\ rec[t].ret # None
            /\ rec[t].betas = <<>> => rec[t].ret = Some(rec[t].x_init)

\* the part of C16 about an empty schedule
C16_EmptySchedule ==
    \A t \in DOMAIN rec :
        (rec[t].pc = "done" /\ rec[t].y.shape[1] = 1 /\ rec[t].betas = <<>>) =>
            /\ rec[t].raised = NoError
            /\ rec[t].Aty = Some(PhysicsAAdjoint(rec[t].y))
            /\ rec[t].ret = Some(rec[t].x_init)

(***************************************************************************)
(* Two reconstructions at once.                                            *)
(***************************************************************************)
\* the images given to the two reconstructions
SharedImages ==
    {[shape |-> <<1, 2, 1, 2>>, data |-> <<d>>] : d \in {<<1, 1, 1, 1>>, <<0, 1, 0, 0>>}}

\* (sigma_sq, betas) of the two reconstructions
SharedSchedules == {<<RatInt(1), None>>, <<RatInt(2), None>>, <<RatInt(2), Some(<<>>)>>}

\* two EPLL objects with patch_size 1 on one mixture or on a mixture each,
\* and a reconstruction on each
InitShared ==
    /\ NoPower
    /\ NoData
    /\ NoCS
    /\ NoTomo
    /\ ctor = NoCtor
    /\ serialized \in BOOLEAN
    /\ \E own \in BOOLEAN :
       \E x1 \in SharedImages, x2 \in SharedImages,
          s1 \in SharedSchedules, s2 \in SharedSchedules,
          b1 \in {-1, 1}, b2 \in {-1, 1} :
          /\ GMM = IF own THEN <<NewGMM(2, 2), NewGMM(2, 2)>> ELSE <<NewGMM(2, 2)>>
          /\ rec = <<NewFrame(1, 1, x1, s1, b1),
                     NewFrame(IF own THEN 2 ELSE 1, 1, x2, s2, b2)>>

SpecShared == InitShared /\ [][NextEPLL]_vars

\* every pass of the batching loop of task t classified and estimated its
\* patches under the regularization 1/beta of the step it belongs to
OwnRegularization(t) ==
    \A i \in 1..Len(rec[t].cov_regs) :
        rec[t].cov_regs[i] = Some(RatDiv(RatInt(1), rec[t].beta.val))

\* C17: set_cov_reg mutates state shared through the GMM instance.  When the
\* two reconstructions are serialized or use independent GMM instances, every
\* step classifies and estimates under exactly its own 1/beta; when they
\* share one GMM and run concurrently a step can classify and estimate under
\* the other task's 1/beta' (the state C17_Witness).
C17_SerializedOrIndependent ==
    (Len(rec) = 2 /\ (serialized \/ rec[1].gmm # rec[2].gmm)) =>
        \A t \in DOMAIN rec : OwnRegularization(t)

\* the two cases of the implication: a serialized pair on one mixture and a
\* concurrent pair on a mixture each, both tasks with a batch classified
C17_SerializedCase ==
    /\ Len(rec) = 2 /\ serialized /\ rec[1].gmm = rec[2].gmm
    /\ rec[1].beta # rec[2].beta
    /\ rec[1].cov_regs # <<>> /\ rec[2].cov_regs # <<>>

C17_IndependentCase ==
    /\ Len(rec) = 2 /\ ~serialized /\ rec[1].gmm # rec[2].gmm
    /\ rec[1].beta # rec[2].beta
    /\ rec[1].pc = "while" /\ rec[2].pc = "while"
    /\ rec[1].cov_regs # <<>> /\ rec[2].cov_regs # <<>>

\* two concurrent reconstructions on one mixture: task 1, in its step with
\* beta = 1, has classified and estimated a batch under task 2's
\* regularization 1/beta' = 2
C17_Witness ==
    /\ Len(rec) = 2 /\ ~serialized /\ rec[1].gmm = rec[2].gmm
    /\ rec[1].beta = Some(RatInt(1))
    /\ rec[2].beta = Some(Rat(1, 2))
    /\ rec[1].cov_regs # <<>>
    /\ rec[1].cov_regs[Len(rec[1].cov_regs)] = Some(RatInt(2))

(***************************************************************************)
(* The batching loop under every batch_size.                               *)
(***************************************************************************)
\* the batch_size arguments, 0 and a negative value other than -1 included
BatchSizeAll == BatchSizeArgs \cup {0, -2, 3}

InitBatching ==
    /\ NoPower
    /\ NoData
    /\ NoCS
    /\ NoTomo
    /\ ctor = NoCtor
    /\ serialized = FALSE
    /\ GMM = <<NewGMM(2, 4)>>
    /\ \E x_init \in {x \in RecImages : x.shape[1] = 1}, patch_size \in PatchSizes,
          schedule \in {<<RatInt(1), None>>, <<RatInt(2), Some(<<>>)>>},
          batch_size \in BatchSizeAll :
          rec = <<NewFrame(1, patch_size, x_init, schedule, batch_size)>>

\* a call that is not finished goes on
SpecBatching == InitBatching /\ [][NextEPLL]_vars /\ WF_vars(NextEPLL)

\* patch_size <= both image dimensions
C18_PatchFits ==
    /\ rec[1].patch_size <= rec[1].x_init.shape[3]
    /\ rec[1].patch_size <= rec[1].x_init.shape[4]

\* the batches of the pass are consecutive ranges that partition
\* [0, total_patch_number), none larger than the clipped batch_size
C18_Partition ==
    LET f == rec[1]
        b == f.batches
    IN  /\ b # <<>>
        /\ b[1][1] = 0
        /\ \A i \in 1..Len(b) : b[i][2] >= 1 /\ b[i][2] <= f.batch_size
        /\ \A i \in 1..(Len(b) - 1) : b[i + 1][1] = b[i][1] + b[i][2]
        /\ b[Len(b)][1] + b[Len(b)][2] = f.total_patch_number
        /\ f.total_patch_number =
              (f.x_init.shape[3] - f.patch_size + 1) * (f.x_init.shape[4] - f.patch_size + 1)
        /\ f.batch_size <= f.total_patch_number

\* C18: the patch batching loop of _reconstruction_step terminates for every
\* integer batch_size (0 and negative values other than -1 included) on
\* every image with patch_size <= image dimensions, and when it terminates
\* the batches processed are consecutive index ranges that partition
\* [0, total_patch_number): every linear patch index is extracted in exactly
\* one batch, in increasing order, with no batch larger than the clipped
\* batch_size.
C18_BatchingTerminates ==
    (rec[1].pc = "while" /\ C18_PatchFits) ~> (rec[1].pc = "cg" /\ C18_Partition)

\* C18 for the batch sizes -1 and >= 1 only
C18_PositiveBatchSizes ==
    (rec[1].pc = "while" /\ C18_PatchFits
        /\ (rec[1].batch_size_arg = -1 \/ rec[1].batch_size_arg >= 1))
    ~> (rec[1].pc = "cg" /\ C18_Partition)

====
